---- MODULE Spec2Model ----
(***************************************************************************)
(* Complaints pipeline: the Schema Registry (schema.py), the Field         *)
(* Normalizer (form_mapping.py), the Poll-and-Mark Engine                  *)
(* (msforms_poll.py) and the backup command (cli.py, sheets.py,            *)
(* backup.py) as state machines.                                           *)
(*                                                                         *)
(* Python strings are tuples of one-character strings, so that strip(),    *)
(* lower() and split() are computed and not assumed.  Python values of     *)
(* other types are tagged records (Str, Num, Bool, None).                  *)
(***************************************************************************)
EXTENDS Integers, Sequences, FiniteSets, TLC

VARIABLES
    \* --- Field Normalizer harness (NormSpec) ---
    nf_raw,        \* the raw_fields argument: a tuple of <<key, value>> entries
    nf_main,       \* out after the mapping loop (form_mapping.py:16-22)
    nf_out,        \* the returned record
    nf_pc,         \* "call" | "mapped" | "returned"
    \* --- the world the poll runs in ---
    env,           \* os.environ: name -> [set, v]
    cols,          \* the table's column names, in table order
    table,         \* the external table: tuple of [index, values]
    \* --- one invocation of run_msforms_poll ---
    pc,            \* position in run_msforms_poll
    run,           \* number of invocations started
    sender_upn,    \* msforms_poll.py:128
    notify_to,     \* msforms_poll.py:129
    processed_idx, \* msforms_poll.py:148-160 (0-based; -1 is None)
    rows,          \* the snapshot of msforms_poll.py:162 (values mutated in place)
    i,             \* 1-based position of the for loop in rows
    cur,           \* the locals of the row in hand
    processed_count,
    ret,           \* the returned value (-1: nothing returned)
    raisedAt,      \* the step whose exception left the invocation ("" if none)
    \* --- observations (history) ---
    fetches,       \* row fetches issued by this invocation
    log,           \* side effects of this invocation: tuple of <<kind, position, row_index>>
    markedBefore,  \* row indexes whose marker an earlier invocation wrote
    pendingRetry,  \* row indexes whose delivery failed and whose marker was not written since
    retryAtStart,  \* pendingRetry as it was when this invocation started
    snapTable,     \* the table as it was when this invocation fetched its rows
    \* --- one run of the command line (cli.py) ---
    args,          \* the argparse.Namespace of parse_args
    ws_header,     \* row 1 of the worksheet: tuple of cell texts
    ws_rows,       \* the data rows of the worksheet: tuple of tuples of cell values
    cli_pc,        \* position in main / run_backup / backup_to_csv
    cli_ret,       \* the value main returned (-1: nothing returned)
    cli_raised,    \* what ended the run abnormally ("" if nothing)
    cli_calls,     \* external calls made, in order
    handler,       \* the handler main called ("" before routing)
    records,       \* the rows read_all_complaints returned
    csv_rows       \* the lines written to the CSV file, as tuples of cell texts

vars == <<nf_raw, nf_main, nf_out, nf_pc, env, cols, table, pc, run, sender_upn,
          notify_to, processed_idx, rows, i, cur, processed_count, ret, raisedAt,
          fetches, log, markedBefore, pendingRetry, retryAtStart, snapTable,
          args, ws_header, ws_rows, cli_pc, cli_ret, cli_raised, cli_calls,
          handler, records, csv_rows>>

cliVars == <<args, ws_header, ws_rows, cli_pc, cli_ret, cli_raised, cli_calls,
             handler, records, csv_rows>>
normVars == <<nf_raw, nf_main, nf_out, nf_pc>>
worldVars == <<env, cols, table>>
pollVars == <<pc, run, sender_upn, notify_to, processed_idx, rows, i, cur,
              processed_count, ret, raisedAt, fetches, log, markedBefore,
              pendingRetry, retryAtStart, snapTable>>

----------------------------------------------------------------------------
\* Python values

Str(s) == [t |-> "str", s |-> s, n |-> 0]
Num(n) == [t |-> "int", s |-> <<>>, n |-> n]
Bool(b) == [t |-> "bool", s |-> <<>>, n |-> IF b THEN 1 ELSE 0]
None == [t |-> "none", s |-> <<>>, n |-> 0]

\* bool(v): the empty string, 0, False and None are falsy
Truthy(v) ==
    CASE v.t = "str" -> v.s # <<>>
      [] v.t = "int" -> v.n # 0
      [] v.t = "bool" -> v.n = 1
      [] OTHER -> FALSE

Digits == <<"0","1","2","3","4","5","6","7","8","9">>

RECURSIVE NatToStr(_)
NatToStr(n) ==
    IF n < 10 THEN <<Digits[n + 1]>>
    ELSE NatToStr(n \div 10) \o <<Digits[(n % 10) + 1]>>

\* str(v)
PyStr(v) ==
    CASE v.t = "str" -> v.s
      [] v.t = "int" -> IF v.n < 0 THEN <<"-">> \o NatToStr(-v.n) ELSE NatToStr(v.n)
      [] v.t = "bool" -> IF v.n = 1 THEN <<"T","r","u","e">> ELSE <<"F","a","l","s","e">>
      [] OTHER -> <<"N","o","n","e">>

\* a or b
PyOr(a, b) == IF Truthy(a) THEN a ELSE b

----------------------------------------------------------------------------
\* str methods

IsSpace(c) == c \in {" ", "\t"}

UpperAlpha == <<"A","B","C","D","E","F","G","H","I","J","K","L","M","N","O","P","Q","R","S","T","U","V","W","X","Y","Z">>
LowerAlpha == <<"a","b","c","d","e","f","g","h","i","j","k","l","m","n","o","p","q","r","s","t","u","v","w","x","y","z">>

LowerChar(c) ==
    IF \E j \in 1..Len(UpperAlpha) : UpperAlpha[j] = c
    THEN LowerAlpha[CHOOSE j \in 1..Len(UpperAlpha) : UpperAlpha[j] = c]
    ELSE c

\* s.lower()
Lower(s) == [j \in 1..Len(s) |-> LowerChar(s[j])]

RECURSIVE LStrip(_)
LStrip(s) == IF s # <<>> /\ IsSpace(Head(s)) THEN LStrip(Tail(s)) ELSE s

RECURSIVE RStrip(_)
RStrip(s) ==
    IF s # <<>> /\ IsSpace(s[Len(s)]) THEN RStrip(SubSeq(s, 1, Len(s) - 1)) ELSE s

\* s.strip()
Strip(s) == RStrip(LStrip(s))

\* s.split(): the maximal runs of non-whitespace, in order
RECURSIVE SplitWs(_, _, _)
SplitWs(s, word, acc) ==
    IF s = <<>> THEN (IF word = <<>> THEN acc ELSE Append(acc, word))
    ELSE IF IsSpace(Head(s))
         THEN SplitWs(Tail(s), <<>>, IF word = <<>> THEN acc ELSE Append(acc, word))
         ELSE SplitWs(Tail(s), Append(word, Head(s)), acc)

\* s.split(sep) for a one-character sep: the pieces between separators, empty ones kept
RECURSIVE SplitOn(_, _, _, _)
SplitOn(s, sep, piece, acc) ==
    IF s = <<>> THEN Append(acc, piece)
    ELSE IF Head(s) = sep
         THEN SplitOn(Tail(s), sep, <<>>, Append(acc, piece))
         ELSE SplitOn(Tail(s), sep, Append(piece, Head(s)), acc)

\* sep.join(words)
RECURSIVE Join(_, _)
Join(words, sep) ==
    IF words = <<>> THEN <<>>
    ELSE IF Len(words) = 1 THEN words[1]
    ELSE words[1] \o sep \o Join(Tail(words), sep)

----------------------------------------------------------------------------
\* schema.py

\* the key list with phone_no listed twice (in place of email_address)
SHEET_COLUMNS_dup == <<
    <<"d","a","t","e">>,
    <<"c","o","m","p","l","a","i","n","t","_","r","e","c","e","i","v","e","d","_","b","y">>,
    <<"f","i","r","s","t","_","n","a","m","e">>,
    <<"l","a","s","t","_","n","a","m","e">>,
    <<"p","h","o","n","e","_","n","o">>,
    <<"p","h","o","n","e","_","n","o">>,
    <<"a","d","d","r","e","s","s">>,
    <<"p","r","o","d","u","c","t","_","n","a","m","e">>,
    <<"p","r","o","d","u","c","t","_","s","i","z","e">>,
    <<"l","o","t","_","s","e","r","i","a","l","_","n","o">>,
    <<"q","u","a","n","t","i","t","y">>,
    <<"p","u","r","c","h","a","s","e","d","_","f","r","o","m","_","d","i","s","t","r","i","b","u","t","o","r">>,
    <<"c","o","u","n","t","r","y">>,
    <<"c","o","m","p","l","a","i","n","t","_","d","e","s","c","r","i","p","t","i","o","n">>,
    <<"c","o","m","p","l","a","i","n","t","_","e","v","a","l","u","a","t","i","o","n","_","l","e","v","e","l">>,
    <<"r","e","p","o","r","t","_","t","o","_","a","u","t","h","o","r","i","t","i","e","s">>,
    <<"u","s","e","d","_","o","n","_","p","a","t","i","e","n","t">>,
    <<"c","l","e","a","n","e","d","_","b","e","f","o","r","e","_","s","e","n","d","i","n","g","_","b","a","c","k","_","t","o","_","r","n">>,
    <<"s","y","s","t","e","m","_","k","i","n","d">>,
    <<"p","r","i","m","a","r","y","_","s","o","l","u","t","i","o","n">>,
    <<"c","o","m","m","e","n","t","s">>,
    <<"c","o","m","p","l","a","i","n","t","_","n","o">>,
    <<"d","a","t","e","_","r","e","c","e","i","v","e","d","_","a","t","_","q","a">>,
    <<"s","u","b","m","i","s","s","i","o","n","_","t","i","m","e","s","t","a","m","p">> >>

SHEET_COLUMNS == <<
    <<"d","a","t","e">>,
    <<"c","o","m","p","l","a","i","n","t","_","r","e","c","e","i","v","e","d","_","b","y">>,
    <<"f","i","r","s","t","_","n","a","m","e">>,
    <<"l","a","s","t","_","n","a","m","e">>,
    <<"p","h","o","n","e","_","n","o">>,
    <<"e","m","a","i","l","_","a","d","d","r","e","s","s">>,
    <<"a","d","d","r","e","s","s">>,
    <<"p","r","o","d","u","c","t","_","n","a","m","e">>,
    <<"p","r","o","d","u","c","t","_","s","i","z","e">>,
    <<"l","o","t","_","s","e","r","i","a","l","_","n","o">>,
    <<"q","u","a","n","t","i","t","y">>,
    <<"p","u","r","c","h","a","s","e","d","_","f","r","o","m","_","d","i","s","t","r","i","b","u","t","o","r">>,
    <<"c","o","u","n","t","r","y">>,
    <<"c","o","m","p","l","a","i","n","t","_","d","e","s","c","r","i","p","t","i","o","n">>,
    <<"c","o","m","p","l","a","i","n","t","_","e","v","a","l","u","a","t","i","o","n","_","l","e","v","e","l">>,
    <<"r","e","p","o","r","t","_","t","o","_","a","u","t","h","o","r","i","t","i","e","s">>,
    <<"u","s","e","d","_","o","n","_","p","a","t","i","e","n","t">>,
    <<"c","l","e","a","n","e","d","_","b","e","f","o","r","e","_","s","e","n","d","i","n","g","_","b","a","c","k","_","t","o","_","r","n">>,
    <<"s","y","s","t","e","m","_","k","i","n","d">>,
    <<"p","r","i","m","a","r","y","_","s","o","l","u","t","i","o","n">>,
    <<"c","o","m","m","e","n","t","s">>,
    <<"c","o","m","p","l","a","i","n","t","_","n","o">>,
    <<"d","a","t","e","_","r","e","c","e","i","v","e","d","_","a","t","_","q","a">>,
    <<"s","u","b","m","i","s","s","i","o","n","_","t","i","m","e","s","t","a","m","p">> >>

CanonicalKeys == {SHEET_COLUMNS[j] : j \in 1..Len(SHEET_COLUMNS)}

K_date == <<"d","a","t","e">>
K_submission_timestamp == <<"s","u","b","m","i","s","s","i","o","n","_","t","i","m","e","s","t","a","m","p">>
K_timestamp == <<"t","i","m","e","s","t","a","m","p">>

QUESTION_MAP ==
       (<<"d","a","t","e">> :> <<"d","a","t","e">>)
    @@ (<<"c","o","m","p","l","a","i","n","t"," ","r","e","c","e","i","v","e","d"," ","b","y">> :> <<"c","o","m","p","l","a","i","n","t","_","r","e","c","e","i","v","e","d","_","b","y">>)
    @@ (<<"f","i","r","s","t"," ","n","a","m","e">> :> <<"f","i","r","s","t","_","n","a","m","e">>)
    @@ (<<"l","a","s","t"," ","n","a","m","e">> :> <<"l","a","s","t","_","n","a","m","e">>)
    @@ (<<"p","h","o","n","e"," ","n","u","m","b","e","r">> :> <<"p","h","o","n","e","_","n","o">>)
    @@ (<<"p","h","o","n","e"," ","n","o">> :> <<"p","h","o","n","e","_","n","o">>)
    @@ (<<"e","m","a","i","l"," ","a","d","d","r","e","s","s">> :> <<"e","m","a","i","l","_","a","d","d","r","e","s","s">>)
    @@ (<<"a","d","d","r","e","s","s">> :> <<"a","d","d","r","e","s","s">>)
    @@ (<<"p","r","o","d","u","c","t"," ","n","a","m","e">> :> <<"p","r","o","d","u","c","t","_","n","a","m","e">>)
    @@ (<<"p","r","o","d","u","c","t"," ","s","i","z","e">> :> <<"p","r","o","d","u","c","t","_","s","i","z","e">>)
    @@ (<<"l","o","t"," ","/"," ","s","e","r","i","a","l"," ","n","u","m","b","e","r">> :> <<"l","o","t","_","s","e","r","i","a","l","_","n","o">>)
    @@ (<<"l","o","t"," ","/"," ","s","e","r","i","a","l"," ","n","o">> :> <<"l","o","t","_","s","e","r","i","a","l","_","n","o">>)
    @@ (<<"l","o","t","/","s","e","r","i","a","l"," ","n","o">> :> <<"l","o","t","_","s","e","r","i","a","l","_","n","o">>)
    @@ (<<"q","u","a","n","t","i","t","y">> :> <<"q","u","a","n","t","i","t","y">>)
    @@ (<<"p","u","r","c","h","a","s","e","d"," ","f","r","o","m"," ","(","d","i","s","t","r","i","b","u","t","e","r",")">> :> <<"p","u","r","c","h","a","s","e","d","_","f","r","o","m","_","d","i","s","t","r","i","b","u","t","o","r">>)
    @@ (<<"p","u","r","c","h","a","s","e","d"," ","f","r","o","m"," ","(","d","i","s","t","r","i","b","u","t","o","r",")">> :> <<"p","u","r","c","h","a","s","e","d","_","f","r","o","m","_","d","i","s","t","r","i","b","u","t","o","r">>)
    @@ (<<"c","o","u","n","t","r","y">> :> <<"c","o","u","n","t","r","y">>)
    @@ (<<"c","o","m","p","l","a","i","n","t"," ","d","e","s","c","r","i","p","t","i","o","n">> :> <<"c","o","m","p","l","a","i","n","t","_","d","e","s","c","r","i","p","t","i","o","n">>)
    @@ (<<"c","o","m","p","l","a","i","n","t"," ","t","y","p","e">> :> <<"c","o","m","p","l","a","i","n","t","_","e","v","a","l","u","a","t","i","o","n","_","l","e","v","e","l">>)
    @@ (<<"s","h","o","u","l","d"," ","t","h","i","s"," ","c","o","m","p","l","a","i","n","t"," ","b","e"," ","r","e","p","o","r","t","e","d"," ","t","o"," ","a","u","t","h","o","r","i","t","i","e","s"," ","?">> :> <<"r","e","p","o","r","t","_","t","o","_","a","u","t","h","o","r","i","t","i","e","s">>)
    @@ (<<"w","a","s"," ","t","h","e"," ","d","e","v","i","c","e"," ","u","s","e","d"," ","o","n"," ","a"," ","p","a","t","i","e","n","t","?">> :> <<"u","s","e","d","_","o","n","_","p","a","t","i","e","n","t">>)
    @@ (<<"w","a","s"," ","t","h","e"," ","d","e","v","i","c","e"," ","c","l","e","a","n","e","d"," ","b","e","f","o","r","e"," ","s","e","n","d","i","n","g"," ","b","a","c","k"," ","t","o"," ","r","n","?">> :> <<"c","l","e","a","n","e","d","_","b","e","f","o","r","e","_","s","e","n","d","i","n","g","_","b","a","c","k","_","t","o","_","r","n">>)
    @@ (<<"w","h","a","t"," ","k","i","n","d"," ","o","f"," ","s","y","s","t","e","m"," ","i","s"," ","t","h","i","s","?">> :> <<"s","y","s","t","e","m","_","k","i","n","d">>)
    @@ (<<"p","r","i","m","a","r","y"," ","s","o","l","u","t","i","o","n"," ","(","i","f"," ","p","r","o","v","i","d","e","d",")">> :> <<"p","r","i","m","a","r","y","_","s","o","l","u","t","i","o","n">>)
    @@ (<<"c","o","m","m","e","n","t","s"," ","(","i","f"," ","a","p","p","l","i","c","a","b","l","e",")">> :> <<"c","o","m","m","e","n","t","s">>)
    @@ (<<"c","o","m","p","l","a","i","n","t"," ","n","o",".">> :> <<"c","o","m","p","l","a","i","n","t","_","n","o">>)
    @@ (<<"c","o","m","p","l","a","i","n","t"," ","n","o">> :> <<"c","o","m","p","l","a","i","n","t","_","n","o">>)
    @@ (<<"d","a","t","e"," ","c","o","m","p","l","a","i","n","t"," ","r","e","c","e","i","v","e","d"," ","a","t"," ","q","a">> :> <<"d","a","t","e","_","r","e","c","e","i","v","e","d","_","a","t","_","q","a">>)
    @@ (<<"t","i","m","e","s","t","a","m","p">> :> <<"s","u","b","m","i","s","s","i","o","n","_","t","i","m","e","s","t","a","m","p">>)
    @@ (<<"s","u","b","m","i","s","s","i","o","n","_","t","i","m","e","s","t","a","m","p">> :> <<"s","u","b","m","i","s","s","i","o","n","_","t","i","m","e","s","t","a","m","p">>)

\* normalize_question without the lower-casing
normalize_question_nolower(q) == Join(SplitWs(Strip(q), <<>>, <<>>), <<" ">>)

\* " ".join(q.strip().lower().split())
normalize_question(q) == Join(SplitWs(Lower(Strip(q)), <<>>, <<>>), <<" ">>)

----------------------------------------------------------------------------
\* dicts: a record `out` is a function over its keys; an ordered mapping (raw
\* fields, a table row) is a tuple of <<key, value>> entries with distinct keys

\* d[k] = v on a function-dict: adds the key when it is new
DictSet(d, k, v) == [x \in (DOMAIN d) \cup {k} |-> IF x = k THEN v ELSE d[x]]

\* d.get(k) on a function-dict
DictGet(d, k) == IF k \in DOMAIN d THEN d[k] ELSE None

ItemKeys(items) == {items[j][1] : j \in 1..Len(items)}

\* items.get(k) on an ordered mapping
ItemsGet(items, k) ==
    IF k \in ItemKeys(items)
    THEN items[CHOOSE j \in 1..Len(items) : items[j][1] = k][2]
    ELSE None

\* items[k] = v on an ordered mapping: a present key keeps its place
ItemsSet(items, k, v) ==
    IF k \in ItemKeys(items)
    THEN [j \in 1..Len(items) |-> IF items[j][1] = k THEN <<k, v>> ELSE items[j]]
    ELSE Append(items, <<k, v>>)

----------------------------------------------------------------------------
\* form_mapping.py

\* out = {k: "" for k in SHEET_COLUMNS}
EmptyRecord == [k \in CanonicalKeys |-> Str(<<>>)]

\* the loop body with an unconditional else-branch (unknown keys kept)
NormEntry_keepUnknown(out, k, v) ==
    LET nk == normalize_question(k)
    IN  IF nk \in DOMAIN QUESTION_MAP
        THEN DictSet(out, QUESTION_MAP[nk], v)
        ELSE DictSet(out, k, v)

\* the loop body keeping the first value written to a canonical key
NormEntry_firstWins(out, k, v) ==
    LET nk == normalize_question(k)
        c == IF nk \in DOMAIN QUESTION_MAP THEN QUESTION_MAP[nk] ELSE k
    IN  IF c \in DOMAIN out /\ out[c] = Str(<<>>) THEN DictSet(out, c, v) ELSE out

\* one iteration of the loop, lines 17-22; every QUESTION_MAP value is a
\* non-empty string, so `if mapped` is `nk in QUESTION_MAP`
NormEntry(out, k, v) ==
    LET nk == normalize_question(k)
    IN  IF nk \in DOMAIN QUESTION_MAP
        THEN DictSet(out, QUESTION_MAP[nk], v)
        ELSE IF k \in DOMAIN out THEN DictSet(out, k, v)
        ELSE out

RECURSIVE NormLoop(_, _)
NormLoop(items, out) ==
    IF items = <<>> THEN out
    ELSE NormLoop(Tail(items), NormEntry(out, Head(items)[1], Head(items)[2]))

\* lines 14-22
MainPass(raw_fields) == NormLoop(raw_fields, EmptyRecord)

\* the post-pass left out
PostPass_absent(out, raw_fields) == out

\* lines 25-26
PostPass(out, raw_fields) ==
    IF ~Truthy(DictGet(out, K_submission_timestamp))
       /\ Truthy(ItemsGet(raw_fields, K_timestamp))
    THEN DictSet(out, K_submission_timestamp, ItemsGet(raw_fields, K_timestamp))
    ELSE out

normalize_fields(raw_fields) == PostPass(MainPass(raw_fields), raw_fields)

----------------------------------------------------------------------------
\* Bounds of the model

MaxEntries == 2   \* entries of a raw_fields mapping given to normalize_fields
MaxRows == 2      \* rows the source table ever holds
MaxRuns == 2      \* poll invocations

----------------------------------------------------------------------------
\* Field Normalizer harness: every bounded mapping is normalized

NormKeys == {
    <<"F","i","r","s","t"," ","N","a","m","e">>,
    <<" ","f","i","r","s","t"," "," "," ","n","a","m","e"," ">>,
    <<"f","i","r","s","t","_","n","a","m","e">>,
    <<"t","i","m","e","s","t","a","m","p">>,
    <<"T","i","m","e","s","t","a","m","p">>,
    <<"s","u","b","m","i","s","s","i","o","n","_","t","i","m","e","s","t","a","m","p">>,
    <<"F","o","o">> }

NormVals == { Str(<<"A">>), Str(<<"B">>), Str(<<>>), Num(0), None }

NormEntries == NormKeys \X NormVals

\* the mappings with at most MaxEntries entries (a dict has distinct keys)
NormInputs ==
    { f \in UNION { [1..m -> NormEntries] : m \in 0..MaxEntries } :
        \A a, b \in DOMAIN f : a # b => f[a][1] # f[b][1] }

----------------------------------------------------------------------------
\* msforms_poll.py: constants and helpers

SYSTEM_COLS == { <<"i","d">>, <<"s","t","a","r","t"," ","t","i","m","e">>, <<"c","o","m","p","l","e","t","i","o","n"," ","t","i","m","e">>, <<"e","m","a","i","l">>, <<"n","a","m","e">> }

PROCESSED_COL_CANDIDATES == { <<"p","r","o","c","e","s","s","e","d">>, <<"i","s"," ","p","r","o","c","e","s","s","e","d">>, <<"d","o","n","e">> }

\* the set literal of line 177
PROCESSED_VALUES == { <<"y","e","s">>, <<"t","r","u","e">>, <<"1">>, <<"y">>, <<"d","o","n","e">> }

S_Yes == <<"Y","e","s">>

RequiredEnv == << "MS_TENANT_ID", "MS_CLIENT_ID", "MS_CLIENT_SECRET",
                  "SP_HOSTNAME", "SP_SITE_PATH", "SP_FOLDER",
                  "MSFORM_SITE_PATH", "MSFORM_FILE_PATH", "MSFORM_TABLE_NAME" >>

MailEnv == { "MAIL_SENDER_UPN", "COMPLAINT_EMAIL_TO", "BACKUP_EMAIL_TO" }

EnvNames == { RequiredEnv[j] : j \in 1..Len(RequiredEnv) } \cup MailEnv

Unset == [set |-> FALSE, v |-> <<>>]
SetTo(s) == [set |-> TRUE, v |-> s]

\* os.getenv(name)
Getenv(name) == IF env[name].set THEN Str(env[name].v) ELSE None

\* os.getenv(name, default)
GetenvDefault(name, default) == IF env[name].set THEN Str(env[name].v) ELSE default

\* a _require that rejects only an unset variable
_require_notNone(value) == value.t # "none"

\* _require(name, value) returns (does not raise SystemExit) unless `not value`
_require(value) == Truthy(value)

AllRequired == \A j \in 1..Len(RequiredEnv) : _require(Getenv(RequiredEnv[j]))

\* the list comprehension of _split_emails
RECURSIVE StripNonEmpty(_)
StripNonEmpty(parts) ==
    IF parts = <<>> THEN <<>>
    ELSE IF Strip(Head(parts)) # <<>>
         THEN <<Strip(Head(parts))>> \o StripNonEmpty(Tail(parts))
         ELSE StripNonEmpty(Tail(parts))

_split_emails(v) == StripNonEmpty(SplitOn(PyStr(PyOr(v, Str(<<>>))), ",", <<>>, <<>>))

\* the first 0-based position at or after j whose column satisfies the test, else -1
RECURSIVE FirstIn(_, _, _)
FirstIn(cols_norm, wanted, j) ==
    IF j > Len(cols_norm) THEN -1
    ELSE IF cols_norm[j] \in wanted THEN j - 1
    ELSE FirstIn(cols_norm, wanted, j + 1)

\* the scans keeping the last matching column instead of breaking at the first
FindProcessedIdx_last(columns) ==
    LET cols_norm == [j \in 1..Len(columns) |-> Lower(Strip(columns[j]))]
        hits == { j \in 1..Len(columns) : cols_norm[j] \in PROCESSED_COL_CANDIDATES }
    IN  IF hits = {} THEN -1
        ELSE (CHOOSE j \in hits : \A l \in hits : l <= j) - 1

\* lines 145-158: the candidate scan, then the exact-match scan (None is -1)
FindProcessedIdx(columns) ==
    LET cols_norm == [j \in 1..Len(columns) |-> Lower(Strip(columns[j]))]
        first == FirstIn(cols_norm, PROCESSED_COL_CANDIDATES, 1)
    IN  IF first # -1 THEN first
        ELSE FirstIn(cols_norm, { <<"p","r","o","c","e","s","s","e","d">> }, 1)

\* line 176
Already(values, pidx) ==
    IF pidx < Len(values) THEN Lower(Strip(PyStr(values[pidx + 1]))) ELSE <<>>

\* the test of lines 176-177 without lower()
IsProcessed_caseSensitive(values, pidx) ==
    (IF pidx < Len(values) THEN Strip(PyStr(values[pidx + 1])) ELSE <<>>)
        \in PROCESSED_VALUES

\* lines 176-177
IsProcessed(values, pidx) == Already(values, pidx) \in PROCESSED_VALUES

\* line 172 (values is always a list here)
Malformed(row) == row.index < 0 \/ row.values = <<>>

\* lines 181-183: dict(zip(cols, values)), a repeated column name keeping its first place
RECURSIVE ZipRow(_, _, _)
ZipRow(columns, values, acc) ==
    IF columns = <<>> \/ values = <<>> THEN acc
    ELSE ZipRow(Tail(columns), Tail(values), ItemsSet(acc, Head(columns), Head(values)))

\* f"row-{row_index}"
RowLabel(row_index) == <<"r","o","w","-">> \o PyStr(Num(row_index))

\* line 186
SubmissionId(raw_row, row_index) ==
    PyStr(PyOr(ItemsGet(raw_row, <<"I","d">>),
          PyOr(ItemsGet(raw_row, <<"i","d">>), Str(RowLabel(row_index)))))

\* lines 187-189
CompletionTime(raw_row) ==
    PyStr(PyOr(ItemsGet(raw_row, <<"C","o","m","p","l","e","t","i","o","n"," ","t","i","m","e">>),
          PyOr(ItemsGet(raw_row, <<"c","o","m","p","l","e","t","i","o","n"," ","t","i","m","e">>), Str(<<>>))))

StartTime(raw_row) ==
    PyStr(PyOr(ItemsGet(raw_row, <<"S","t","a","r","t"," ","t","i","m","e">>),
          PyOr(ItemsGet(raw_row, <<"s","t","a","r","t"," ","t","i","m","e">>), Str(<<>>))))

\* line 189 with the operands swapped
RowTimestamp_startFirst(raw_row) ==
    IF StartTime(raw_row) # <<>> THEN StartTime(raw_row) ELSE CompletionTime(raw_row)

RowTimestamp(raw_row) ==
    IF CompletionTime(raw_row) # <<>> THEN CompletionTime(raw_row) ELSE StartTime(raw_row)

\* lines 192-199
RECURSIVE CleanedFields(_)
CleanedFields(raw_row) ==
    IF raw_row = <<>> THEN <<>>
    ELSE LET kn == Lower(Strip(Head(raw_row)[1]))
         IN  IF kn \in SYSTEM_COLS \/ kn \in PROCESSED_COL_CANDIDATES
             THEN CleanedFields(Tail(raw_row))
             ELSE <<Head(raw_row)>> \o CleanedFields(Tail(raw_row))

\* lines 205-211
WithDefault(norm, key, timestamp) ==
    IF ~Truthy(DictGet(norm, key)) /\ timestamp # <<>>
    THEN DictSet(norm, key, Str(timestamp))
    ELSE norm

\* lines 202-211: the record handed to rendering and delivery
RowRecord(raw_row) ==
    WithDefault(
        WithDefault(normalize_fields(CleanedFields(raw_row)), K_date, RowTimestamp(raw_row)),
        K_submission_timestamp, RowTimestamp(raw_row))

\* lines 265-270 appending the marker to a short row instead of padding it
MarkValues_append(values, pidx) ==
    IF pidx < Len(values) THEN [values EXCEPT ![pidx + 1] = Str(S_Yes)]
    ELSE Append(values, Str(S_Yes))

\* lines 265-270
MarkValues(values, pidx) ==
    LET padded == IF pidx < Len(values) THEN values
                  ELSE values \o [j \in 1..(pidx - Len(values) + 1) |-> Str(<<>>)]
    IN  [padded EXCEPT ![pidx + 1] = Str(S_Yes)]

\* line 243
MailConfigured == sender_upn # <<>> /\ notify_to # <<>>

\* the loop reading the live table instead of the rows fetched at line 162
RowsToProcess_live(snapshot, live) ==
    [j \in 1..Len(live) |-> IF j <= Len(snapshot) THEN snapshot[j] ELSE live[j]]

\* line 169: the loop runs over the list fetched at line 162
RowsToProcess(snapshot, live) == snapshot

\* returning the counter
ReturnValue_count(count) == count

\* line 278
ReturnValue(count) == 0

\* the per-row steps with the counter bumped before the write-back
StageOrder_countFirst == << "upload_pdf", "upload_json", "mail", "count", "mark" >>

\* the per-row steps with the marker written before delivery
StageOrder_markFirst == << "mark", "upload_pdf", "upload_json", "mail", "count" >>

\* lines 239-274: the order of a row's steps after the local files are written
StageOrder == << "upload_pdf", "upload_json", "mail", "mark", "count" >>

StagePos(stage) == CHOOSE j \in 1..Len(StageOrder) : StageOrder[j] = stage

\* the step after `stage`; after the last one the loop takes the next row
NextStage(stage) ==
    IF StagePos(stage) = Len(StageOrder) THEN "loop" ELSE StageOrder[StagePos(stage) + 1]

DeliveryStages == { "upload_pdf", "upload_json", "mail" }

----------------------------------------------------------------------------
\* The worlds a poll may run in: environment, table layout, rows the source adds

MailChoices == {
    [MAIL_SENDER_UPN |-> Unset, COMPLAINT_EMAIL_TO |-> Unset, BACKUP_EMAIL_TO |-> Unset],
    [MAIL_SENDER_UPN |-> SetTo(<<" ","s","@","x"," ">>), COMPLAINT_EMAIL_TO |-> Unset,
     BACKUP_EMAIL_TO |-> SetTo(<<"a","@","x",","," ",",","b","@","x">>)],
    [MAIL_SENDER_UPN |-> SetTo(<<"s","@","x">>), COMPLAINT_EMAIL_TO |-> SetTo(<<" ",","," ">>),
     BACKUP_EMAIL_TO |-> SetTo(<<"c","@","x">>)] }

EnvWith(mail, bad, val) ==
    [n \in EnvNames |->
        IF n \in MailEnv THEN mail[n]
        ELSE IF n = bad THEN val
        ELSE SetTo(<<"x">>)]

NoMail == [MAIL_SENDER_UPN |-> Unset, COMPLAINT_EMAIL_TO |-> Unset, BACKUP_EMAIL_TO |-> Unset]

GoodEnvs == { EnvWith(m, "", Unset) : m \in MailChoices }

BadEnvs == { EnvWith(NoMail, RequiredEnv[j], val) :
                j \in 1..Len(RequiredEnv), val \in {Unset, SetTo(<<>>)} }

ColsForms == << <<"I","d">>, <<"C","o","m","p","l","e","t","i","o","n"," ","t","i","m","e">>, <<"F","i","r","s","t"," ","N","a","m","e">>, <<"P","r","o","c","e","s","s","e","d">> >>
ColsDone == << <<"S","t","a","r","t"," ","t","i","m","e">>, <<"f","i","r","s","t","_","n","a","m","e">>, <<" ","D","O","N","E"," ">> >>
ColsNoMarker == << <<"I","d">>, <<"F","i","r","s","t"," ","N","a","m","e">> >>
ColsNone == << >>
ColsTwo == << <<"S","t","a","r","t"," ","t","i","m","e">>, <<"C","o","m","p","l","e","t","i","o","n"," ","t","i","m","e">>, <<"D","a","t","e">>, <<"D","o","n","e">>, <<"p","r","o","c","e","s","s","e","d">> >>

Worlds ==
    (GoodEnvs \X {ColsForms})
    \cup ({EnvWith(NoMail, "", Unset)} \X {ColsDone, ColsNoMarker, ColsNone, ColsTwo})
    \cup (BadEnvs \X {ColsForms})

\* the rows the source may append: [ok: the response carries the row's index, values]
RowKinds == {
    [ok |-> TRUE,  values |-> << Num(7), Str(<<"T","1">>), Str(<<"A","d","a">>), Str(<<>>) >>],
    [ok |-> TRUE,  values |-> << Str(<<>>), Str(<<"T","2">>), Str(<<"B","o","b">>), Str(<<" ","Y","E","S"," ">>) >>],
    [ok |-> TRUE,  values |-> << Num(5), Str(<<"T","3">>) >>],
    [ok |-> TRUE,  values |-> << >>],
    [ok |-> FALSE, values |-> << Num(6), Str(<<"T","4">>), Str(<<"E","d">>), Str(<<"n","o">>) >>] }

NoCur == [pos |-> 0, row_index |-> -1, values |-> <<>>, submission_id |-> <<>>,
          timestamp |-> <<>>, norm |-> EmptyRecord]

PollIdle ==
    /\ pc = "idle" /\ run = 0
    /\ sender_upn = <<>> /\ notify_to = <<>>
    /\ processed_idx = -1 /\ rows = <<>> /\ i = 0 /\ cur = NoCur
    /\ processed_count = 0 /\ ret = -1 /\ raisedAt = ""
    /\ fetches = 0 /\ log = <<>> /\ markedBefore = {} /\ pendingRetry = {}
    /\ retryAtStart = {}
    /\ snapTable = <<>>

NoArgs == [cmd |-> "", sp_upload |-> FALSE, email |-> FALSE, sp_upload_log |-> FALSE,
           non_strict_header |-> FALSE, sheet_id |-> None, sa_json |-> None,
           worksheet |-> None, backup_email_to |-> Str(<<>>)]

CliIdle ==
    /\ args = NoArgs /\ ws_header = <<>> /\ ws_rows = <<>>
    /\ cli_pc = "idle" /\ cli_ret = -1 /\ cli_raised = "" /\ cli_calls = <<>>
    /\ handler = "" /\ records = <<>> /\ csv_rows = <<>>

NormIdle ==
    /\ nf_raw = <<>> /\ nf_main = EmptyRecord /\ nf_out = EmptyRecord /\ nf_pc = "idle"

Init ==
    /\ \E w \in Worlds : env = w[1] /\ cols = w[2]
    /\ table = <<>>
    /\ PollIdle
    /\ CliIdle
    /\ NormIdle

----------------------------------------------------------------------------
\* The source appends a row (at any time, also during an invocation)

AddRow ==
    /\ Len(table) < MaxRows
    /\ \E k \in RowKinds :
         table' = Append(table, [index |-> IF k.ok THEN Len(table) ELSE -1,
                                 values |-> k.values])
    /\ UNCHANGED <<normVars, cliVars, env, cols, pollVars>>

----------------------------------------------------------------------------
\* run_msforms_poll, one action per step between external calls

Marked(events) == { events[j][3] : j \in { x \in 1..Len(events) : events[x][1] = "mark" } }

\* lines 108-129: a new invocation, the r-th; nothing of the previous one is kept
PollBegin(r) ==
    /\ pc \in {"idle", "returned", "raised", "exit"}
    /\ run' = r
    /\ markedBefore' = markedBefore \cup Marked(log)
    /\ retryAtStart' = pendingRetry
    /\ processed_idx' = -1 /\ rows' = <<>> /\ i' = 0 /\ cur' = NoCur
    /\ processed_count' = 0 /\ ret' = -1
    /\ fetches' = 0 /\ log' = <<>> /\ snapTable' = <<>>
    /\ IF AllRequired
       THEN /\ pc' = "token"
            /\ raisedAt' = ""
            /\ sender_upn' = Strip(PyStr(PyOr(Getenv("MAIL_SENDER_UPN"), Str(<<>>))))
            /\ notify_to' = _split_emails(
                   GetenvDefault("COMPLAINT_EMAIL_TO",
                                 GetenvDefault("BACKUP_EMAIL_TO", Str(<<>>))))
       ELSE /\ pc' = "exit"           \* SystemExit("Missing required env var: ...")
            /\ raisedAt' = "require"
            /\ sender_upn' = <<>>
            /\ notify_to' = <<>>
    /\ UNCHANGED <<normVars, cliVars, worldVars, pendingRetry>>

PollStart ==
    /\ run < MaxRuns
    /\ PollBegin(run + 1)

\* an exception leaves run_msforms_poll: nothing catches it
Raise(stage) ==
    /\ pc' = "raised"
    /\ raisedAt' = stage

\* lines 131-132
GetToken ==
    /\ pc = "token"
    /\ pc' = "drives"
    /\ UNCHANGED <<normVars, cliVars, worldVars, run, sender_upn, notify_to, processed_idx, rows,
                   i, cur, processed_count, ret, raisedAt, fetches, log, markedBefore,
                   pendingRetry, retryAtStart, snapTable>>

\* lines 135-142
ResolveDrives ==
    /\ pc = "drives"
    /\ pc' = "columns"
    /\ UNCHANGED <<normVars, cliVars, worldVars, run, sender_upn, notify_to, processed_idx, rows,
                   i, cur, processed_count, ret, raisedAt, fetches, log, markedBefore,
                   pendingRetry, retryAtStart, snapTable>>

\* a Graph call before the loop fails (get_token, get_site_id, get_default_drive_id,
\* _get_table_columns, _get_table_rows raise)
SetupCallFails ==
    /\ pc \in {"token", "drives", "columns", "rows"}
    /\ Raise(pc)
    /\ UNCHANGED <<normVars, cliVars, worldVars, run, sender_upn, notify_to, processed_idx, rows,
                   i, cur, processed_count, ret, fetches, log, markedBefore,
                   pendingRetry, retryAtStart, snapTable>>

\* lines 144-158 with a processed column found
FetchColumns ==
    /\ pc = "columns"
    /\ cols # <<>>
    /\ FindProcessedIdx(cols) # -1
    /\ processed_idx' = FindProcessedIdx(cols)
    /\ pc' = "rows"
    /\ UNCHANGED <<normVars, cliVars, worldVars, run, sender_upn, notify_to, rows,
                   i, cur, processed_count, ret, raisedAt, fetches, log, markedBefore,
                   pendingRetry, retryAtStart, snapTable>>

\* lines 86-87: RuntimeError("No columns found ...")
NoColumns ==
    /\ pc = "columns"
    /\ cols = <<>>
    /\ Raise("no_columns")
    /\ UNCHANGED <<normVars, cliVars, worldVars, run, sender_upn, notify_to, processed_idx, rows,
                   i, cur, processed_count, ret, fetches, log, markedBefore,
                   pendingRetry, retryAtStart, snapTable>>

\* lines 159-160: RuntimeError("Could not find a 'Processed' column ...")
NoProcessedColumn ==
    /\ pc = "columns"
    /\ cols # <<>>
    /\ FindProcessedIdx(cols) = -1
    /\ Raise("processed_col")
    /\ UNCHANGED <<normVars, cliVars, worldVars, run, sender_upn, notify_to, processed_idx, rows,
                   i, cur, processed_count, ret, fetches, log, markedBefore,
                   pendingRetry, retryAtStart, snapTable>>

\* lines 162-167: the one fetch of the rows, then mkdir and processed_count = 0
FetchRows ==
    /\ pc = "rows"
    /\ rows' = table
    /\ snapTable' = table
    /\ fetches' = fetches + 1
    /\ processed_count' = 0
    /\ i' = 1
    /\ pc' = "loop"
    /\ UNCHANGED <<normVars, cliVars, worldVars, run, sender_upn, notify_to, processed_idx,
                   cur, ret, raisedAt, log, markedBefore, pendingRetry, retryAtStart>>

Todo == RowsToProcess(rows, table)

\* pc and i after a row's step `stage`
Advance(stage) ==
    /\ pc' = NextStage(stage)
    /\ i' = IF NextStage(stage) = "loop" THEN i + 1 ELSE i

Event(kind) == <<kind, cur.pos, cur.row_index>>

\* lines 170-173: continue
RowSkipMalformed ==
    /\ pc = "loop" /\ i <= Len(Todo)
    /\ Malformed(Todo[i])
    /\ i' = i + 1
    /\ UNCHANGED <<normVars, cliVars, worldVars, pc, run, sender_upn, notify_to, processed_idx,
                   rows, cur, processed_count, ret, raisedAt, fetches, log,
                   markedBefore, pendingRetry, retryAtStart, snapTable>>

\* lines 175-178: continue
RowSkipProcessed ==
    /\ pc = "loop" /\ i <= Len(Todo)
    /\ ~Malformed(Todo[i])
    /\ IsProcessed(Todo[i].values, processed_idx)
    /\ i' = i + 1
    /\ UNCHANGED <<normVars, cliVars, worldVars, pc, run, sender_upn, notify_to, processed_idx,
                   rows, cur, processed_count, ret, raisedAt, fetches, log,
                   markedBefore, pendingRetry, retryAtStart, snapTable>>

\* lines 180-233: the row's locals, the normalized record, the PDF and the
\* JSON written under out_dir
RowPrepare ==
    /\ pc = "loop" /\ i <= Len(Todo)
    /\ ~Malformed(Todo[i])
    /\ ~IsProcessed(Todo[i].values, processed_idx)
    /\ LET row == Todo[i]
           raw_row == ZipRow(cols, row.values, <<>>)
       IN  /\ cur' = [pos |-> i,
                      row_index |-> row.index,
                      values |-> row.values,
                      submission_id |-> SubmissionId(raw_row, row.index),
                      timestamp |-> RowTimestamp(raw_row),
                      norm |-> RowRecord(raw_row)]
           /\ log' = log \o << <<"normalize", i, row.index>>, <<"render", i, row.index>> >>
    /\ pc' = StageOrder[1]
    /\ UNCHANGED <<normVars, cliVars, worldVars, run, sender_upn, notify_to, processed_idx,
                   rows, i, processed_count, ret, raisedAt, fetches,
                   markedBefore, pendingRetry, retryAtStart, snapTable>>

\* line 239
UploadPdf ==
    /\ pc = "upload_pdf"
    /\ log' = Append(log, Event("upload_pdf"))
    /\ Advance("upload_pdf")
    /\ UNCHANGED <<normVars, cliVars, worldVars, run, sender_upn, notify_to, processed_idx,
                   rows, cur, processed_count, ret, raisedAt, fetches,
                   markedBefore, pendingRetry, retryAtStart, snapTable>>

\* line 240
UploadJson ==
    /\ pc = "upload_json"
    /\ log' = Append(log, Event("upload_json"))
    /\ Advance("upload_json")
    /\ UNCHANGED <<normVars, cliVars, worldVars, run, sender_upn, notify_to, processed_idx,
                   rows, cur, processed_count, ret, raisedAt, fetches,
                   markedBefore, pendingRetry, retryAtStart, snapTable>>

\* lines 243-262 with sender and recipients configured
SendMail ==
    /\ pc = "mail"
    /\ MailConfigured
    /\ log' = Append(log, Event("mail"))
    /\ Advance("mail")
    /\ UNCHANGED <<normVars, cliVars, worldVars, run, sender_upn, notify_to, processed_idx,
                   rows, cur, processed_count, ret, raisedAt, fetches,
                   markedBefore, pendingRetry, retryAtStart, snapTable>>

\* line 243 false: no mail
SkipMail ==
    /\ pc = "mail"
    /\ ~MailConfigured
    /\ Advance("mail")
    /\ UNCHANGED <<normVars, cliVars, worldVars, run, sender_upn, notify_to, processed_idx,
                   rows, cur, processed_count, ret, raisedAt, fetches, log,
                   markedBefore, pendingRetry, retryAtStart, snapTable>>

\* upload_file_put_content or send_mail_with_attachments raises
DeliveryFails ==
    /\ pc \in DeliveryStages
    /\ pc = "mail" => MailConfigured
    /\ Raise(pc)
    /\ log' = Append(log, Event("fail"))
    /\ pendingRetry' = pendingRetry \cup {cur.row_index}
    /\ UNCHANGED <<normVars, cliVars, worldVars, run, sender_upn, notify_to, processed_idx,
                   rows, i, cur, processed_count, ret, fetches,
                   markedBefore, retryAtStart, snapTable>>

\* the list `values` is the one inside the fetched row: lines 265-270 change the snapshot
MarkInMemory ==
    /\ cur' = [cur EXCEPT !.values = MarkValues(cur.values, processed_idx)]
    /\ rows' = [j \in 1..Len(rows) |->
                   IF j = cur.pos
                   THEN [rows[j] EXCEPT !.values = MarkValues(cur.values, processed_idx)]
                   ELSE rows[j]]

\* _update_row_values: PATCH .../rows/itemAt(index=row_index)/range
_update_row_values(t, row_index, values) ==
    [j \in 1..Len(t) |-> IF j = row_index + 1 THEN [t[j] EXCEPT !.values = values] ELSE t[j]]

\* lines 264-272, the PATCH answered
MarkRow ==
    /\ pc = "mark"
    /\ MarkInMemory
    /\ table' = _update_row_values(table, cur.row_index, MarkValues(cur.values, processed_idx))
    /\ log' = Append(log, Event("mark"))
    /\ pendingRetry' = pendingRetry \ {cur.row_index}
    /\ Advance("mark")
    /\ UNCHANGED <<normVars, cliVars, env, cols, run, sender_upn, notify_to, processed_idx,
                   processed_count, ret, raisedAt, fetches, markedBefore,
                   retryAtStart, snapTable>>

\* lines 264-272, the PATCH raising
WriteBackFails ==
    /\ pc = "mark"
    /\ MarkInMemory
    /\ Raise("mark")
    /\ UNCHANGED <<normVars, cliVars, worldVars, run, sender_upn, notify_to, processed_idx,
                   i, processed_count, ret, fetches, log, markedBefore,
                   pendingRetry, retryAtStart, snapTable>>

\* lines 274-275
CountRow ==
    /\ pc = "count"
    /\ processed_count' = processed_count + 1
    /\ Advance("count")
    /\ UNCHANGED <<normVars, cliVars, worldVars, run, sender_upn, notify_to, processed_idx,
                   rows, cur, ret, raisedAt, fetches, log, markedBefore,
                   pendingRetry, retryAtStart, snapTable>>

\* lines 277-278
PollReturn ==
    /\ pc = "loop" /\ i > Len(Todo)
    /\ ret' = ReturnValue(processed_count)
    /\ pc' = "returned"
    /\ UNCHANGED <<normVars, cliVars, worldVars, run, sender_upn, notify_to, processed_idx,
                   rows, i, cur, processed_count, raisedAt, fetches, log,
                   markedBefore, pendingRetry, retryAtStart, snapTable>>

Next ==
    \/ AddRow
    \/ PollStart
    \/ GetToken
    \/ ResolveDrives
    \/ SetupCallFails
    \/ FetchColumns
    \/ NoColumns
    \/ NoProcessedColumn
    \/ FetchRows
    \/ RowSkipMalformed
    \/ RowSkipProcessed
    \/ RowPrepare
    \/ UploadPdf
    \/ UploadJson
    \/ SendMail
    \/ SkipMail
    \/ DeliveryFails
    \/ MarkRow
    \/ WriteBackFails
    \/ CountRow
    \/ PollReturn

Spec == Init /\ [][Next]_vars

----------------------------------------------------------------------------
\* normalize_fields applied to every bounded mapping

NormInit ==
    /\ nf_raw \in NormInputs
    /\ nf_main = EmptyRecord
    /\ nf_out = EmptyRecord
    /\ nf_pc = "call"
    /\ env = EnvWith(NoMail, "", Unset)
    /\ cols = ColsForms
    /\ table = <<>>
    /\ PollIdle
    /\ CliIdle

\* lines 14-22
NormMap ==
    /\ nf_pc = "call"
    /\ nf_main' = MainPass(nf_raw)
    /\ nf_out' = MainPass(nf_raw)
    /\ nf_pc' = "mapped"
    /\ UNCHANGED <<nf_raw, worldVars, pollVars, cliVars>>

\* lines 24-27
NormReturn ==
    /\ nf_pc = "mapped"
    /\ nf_out' = PostPass(nf_out, nf_raw)
    /\ nf_pc' = "returned"
    /\ UNCHANGED <<nf_raw, nf_main, worldVars, pollVars, cliVars>>

NormNext == NormMap \/ NormReturn

NormSpec == NormInit /\ [][NormNext]_vars


----------------------------------------------------------------------------
\* The poll invoked again and again (a scheduled job) over a table in which the
\* delivery of one row fails on every attempt and every other call succeeds

\* the row whose PDF upload raises each time it is attempted
FailsAlways(row_index) == row_index = 0

\* an invocation past the MaxRuns-th: the counter of invocations stays capped
PollAgain ==
    /\ run = MaxRuns
    /\ PollBegin(run)

UploadPdfOk ==
    /\ ~FailsAlways(cur.row_index)
    /\ UploadPdf

UploadPdfRaises ==
    /\ FailsAlways(cur.row_index)
    /\ pc = "upload_pdf"
    /\ DeliveryFails

\* the table is configured correctly: every required value set, a processed column
RepeatInit ==
    /\ \E w \in (GoodEnvs \X {ColsForms})
                 \cup ({EnvWith(NoMail, "", Unset)} \X {ColsDone, ColsTwo}) :
          env = w[1] /\ cols = w[2]
    /\ table = <<>>
    /\ PollIdle
    /\ CliIdle
    /\ NormIdle

RepeatNext ==
    \/ AddRow
    \/ PollStart
    \/ PollAgain
    \/ GetToken
    \/ ResolveDrives
    \/ FetchColumns
    \/ FetchRows
    \/ RowSkipMalformed
    \/ RowSkipProcessed
    \/ RowPrepare
    \/ UploadPdfOk
    \/ UploadPdfRaises
    \/ UploadJson
    \/ SendMail
    \/ SkipMail
    \/ MarkRow
    \/ CountRow
    \/ PollReturn

\* the scheduler starts the job again once an invocation has ended
Schedule == PollStart \/ PollAgain

\* no invocation is in progress
PollEnded == pc \in {"idle", "returned", "raised", "exit"}

\* the job is scheduled again after each invocation ends, and every invocation
\* ends (the sequential program runs to its return or to the exception that
\* leaves it)
RepeatSpec ==
    RepeatInit /\ [][RepeatNext]_vars /\ WF_vars(Schedule) /\ []<>PollEnded

----------------------------------------------------------------------------
\* sheets.py: ensure_header, read_all_complaints

Min(a, b) == IF a < b THEN a ELSE b

\* line 42: no header row, or every cell blank
HeaderBlank(header) ==
    header = <<>> \/ \A j \in 1..Len(header) : Strip(header[j]) = <<>>

\* line 47: got
HeaderGot(header) ==
    [j \in 1..Min(Len(header), Len(SHEET_COLUMNS)) |-> Strip(header[j])]

\* the comparison of line 48 on the cells as they are, without strip()
HeaderMatches_noStrip(header) ==
    SubSeq(header, 1, Min(Len(header), Len(SHEET_COLUMNS))) = SHEET_COLUMNS

\* line 48: got == expected
HeaderMatches(header) == HeaderGot(header) = SHEET_COLUMNS

\* ws.get_all_records: one dict per data row, keyed by the header cells, a row
\* shorter than the header filled with ""
RECURSIVE ZipPad(_, _, _)
ZipPad(keys, values, acc) ==
    IF keys = <<>> THEN acc
    ELSE ZipPad(Tail(keys),
                IF values = <<>> THEN <<>> ELSE Tail(values),
                ItemsSet(acc, Head(keys), IF values = <<>> THEN Str(<<>>) ELSE Head(values)))

\* line 57
get_all_records(header, data) == [j \in 1..Len(data) |-> ZipPad(header, data[j], <<>>)]

----------------------------------------------------------------------------
\* backup.py: backup_to_csv

\* r.get(k, default)
RecordGet(r, k, default) == IF k \in ItemKeys(r) THEN ItemsGet(r, k) ELSE default

\* csv.writer: None is written as "", any other value as str(value)
CsvCell(v) == IF v = None THEN <<>> ELSE PyStr(v)

\* the row written with the record's own keys, in the record's order
CsvRow_recordOrder(r) == [j \in 1..Len(r) |-> CsvCell(r[j][2])]

\* line 22: one line with the fields of SHEET_COLUMNS, in that order
CsvRow(r) ==
    [j \in 1..Len(SHEET_COLUMNS) |-> CsvCell(RecordGet(r, SHEET_COLUMNS[j], Str(<<>>)))]

\* lines 18-22: writeheader, then a line per record
CsvFile(rs) == <<SHEET_COLUMNS>> \o [j \in 1..Len(rs) |-> CsvRow(rs[j])]

----------------------------------------------------------------------------
\* cli.py

\* lines 65, 75, 77: the subcommands the parser accepts
SubCommands == { "backup", "dispatch", "msforms-poll" }

\* lines 45-48
require(value) == Truthy(value)

\* lines 51-52
split_emails(s) == StripNonEmpty(SplitOn(PyStr(PyOr(s, Str(<<>>))), ",", <<>>, <<>>))

\* lines 256-264: the handler main calls for a command
Route(cmd) ==
    IF cmd = "backup" THEN "run_backup"
    ELSE IF cmd = "dispatch" THEN "run_dispatch"
    ELSE IF cmd = "poll" THEN "run_poll"
    ELSE "Unknown command"

\* line 114 with the second `not` dropped
FastPath_uploadOnly(a) == ~a.sp_upload /\ a.email

\* line 114
FastPath(a) == ~a.sp_upload /\ ~a.email

\* lines 86-94: load_graph_env
GraphEnvNames == << "MS_TENANT_ID", "MS_CLIENT_ID", "MS_CLIENT_SECRET",
                    "SP_HOSTNAME", "SP_SITE_PATH", "SP_FOLDER" >>

GraphEnvOk == \A j \in 1..Len(GraphEnvNames) : require(Getenv(GraphEnvNames[j]))

\* lines 135-137
BackupMailConfigured ==
    /\ Strip(PyStr(GetenvDefault("MAIL_SENDER_UPN", Str(<<>>)))) # <<>>
    /\ split_emails(args.backup_email_to) # <<>>

GraphCalls == { "get_token", "get_site_id", "get_default_drive_id",
                "upload_csv", "upload_log", "send_mail" }

----------------------------------------------------------------------------
\* The command lines, environments and worksheets a run may be given

MaxDataRows == 2   \* data rows of the worksheet

HeaderChoices == {
    SHEET_COLUMNS,
    Append(SHEET_COLUMNS, <<"n","o","t","e","s">>),
    [j \in 1..Len(SHEET_COLUMNS) |->
        IF j = 3 THEN <<" ">> \o SHEET_COLUMNS[j] \o <<" ">> ELSE SHEET_COLUMNS[j]],
    << SHEET_COLUMNS[2], SHEET_COLUMNS[1] >> \o SubSeq(SHEET_COLUMNS, 3, Len(SHEET_COLUMNS)),
    [SHEET_COLUMNS EXCEPT ![Len(SHEET_COLUMNS)] = <<"t","s">>],
    SubSeq(SHEET_COLUMNS, 1, 3),
    << >>,
    << <<" ">>, <<>> >> }

DataRowChoices == {
    [j \in 1..(Len(SHEET_COLUMNS) + 1) |->
        IF j = 1 THEN Str(<<"D","1">>) ELSE IF j = 3 THEN Str(<<"A","d","a">>)
        ELSE IF j = 5 THEN Num(7) ELSE IF j = Len(SHEET_COLUMNS) THEN Str(<<"T","9">>)
        ELSE IF j > Len(SHEET_COLUMNS) THEN Str(<<"x">>)
        ELSE Str(<<>>)],
    << Str(<<"D","2">>), Str(<<"Q","A">>) >> }

DataRows == UNION { [1..m -> DataRowChoices] : m \in 0..MaxDataRows }

SheetArgs == {
    [sheet_id |-> Str(<<"S">>), sa_json |-> Str(<<"s","a",".","j","s","o","n">>), worksheet |-> Str(<<"C","o","m","p","l","a","i","n","t","s">>)],
    [sheet_id |-> None, sa_json |-> Str(<<"s","a",".","j","s","o","n">>), worksheet |-> Str(<<"C","o","m","p","l","a","i","n","t","s">>)],
    [sheet_id |-> Str(<<"S">>), sa_json |-> Str(<<>>), worksheet |-> Str(<<"C","o","m","p","l","a","i","n","t","s">>)] }

CliEnvs == GoodEnvs \cup { EnvWith(NoMail, "SP_FOLDER", Unset) }

\* parse_args for `backup`: the flags, --sheet-id/--sa-json/--worksheet with
\* their environment defaults, --backup-email-to defaulting to BACKUP_EMAIL_TO
BackupArgs(e) ==
    { [cmd |-> "backup", sp_upload |-> f[1], email |-> f[2], sp_upload_log |-> f[3],
       non_strict_header |-> f[4], sheet_id |-> s.sheet_id, sa_json |-> s.sa_json,
       worksheet |-> s.worksheet,
       backup_email_to |-> IF e["BACKUP_EMAIL_TO"].set
                           THEN Str(e["BACKUP_EMAIL_TO"].v) ELSE Str(<<>>)] :
        f \in BOOLEAN \X BOOLEAN \X BOOLEAN \X BOOLEAN,
        s \in SheetArgs }

CliInit ==
    /\ nf_raw = <<>> /\ nf_main = EmptyRecord /\ nf_out = EmptyRecord /\ nf_pc = "idle"
    /\ cols = ColsForms /\ table = <<>>
    /\ PollIdle
    /\ \/ /\ env \in CliEnvs
          /\ args \in BackupArgs(env)
          /\ ws_header \in HeaderChoices
          /\ ws_rows \in DataRows
       \/ /\ env = EnvWith(NoMail, "", Unset)
          /\ args \in { [NoArgs EXCEPT !.cmd = c] : c \in {"dispatch", "msforms-poll", ""} }
          /\ ws_header = <<>>
          /\ ws_rows = <<>>
    /\ cli_pc = "start" /\ cli_ret = -1 /\ cli_raised = "" /\ cli_calls = <<>>
    /\ handler = "" /\ records = <<>> /\ csv_rows = <<>>

CliStop(at, why) == cli_pc' = at /\ cli_raised' = why

\* lines 55-83: argparse ends the program when no accepted subcommand is given
ParseArgs ==
    /\ cli_pc = "start"
    /\ IF args.cmd \in SubCommands
       THEN cli_pc' = "main" /\ cli_raised' = ""
       ELSE CliStop("exit", "usage")
    /\ UNCHANGED <<normVars, worldVars, pollVars, args, ws_header, ws_rows, cli_ret,
                   cli_calls, handler, records, csv_rows>>

\* lines 256-264: run_poll is not defined (NameError); run_dispatch is entered
\* and not followed further
MainRoute ==
    /\ cli_pc = "main"
    /\ handler' = Route(args.cmd)
    /\ IF Route(args.cmd) = "run_backup" THEN cli_pc' = "backup" /\ cli_raised' = ""
       ELSE IF Route(args.cmd) = "run_dispatch" THEN cli_pc' = "run_dispatch" /\ cli_raised' = ""
       ELSE IF Route(args.cmd) = "run_poll" THEN CliStop("raised", "NameError")
       ELSE CliStop("exit", "Unknown command")
    /\ UNCHANGED <<normVars, worldVars, pollVars, args, ws_header, ws_rows, cli_ret,
                   cli_calls, records, csv_rows>>

\* run_backup lines 98-105
BackupRequire ==
    /\ cli_pc = "backup"
    /\ IF require(args.sheet_id) /\ require(args.sa_json) /\ require(args.worksheet)
       THEN cli_pc' = "sheets" /\ cli_raised' = ""
       ELSE CliStop("exit", "require")
    /\ UNCHANGED <<normVars, worldVars, pollVars, args, ws_header, ws_rows, cli_ret,
                   cli_calls, handler, records, csv_rows>>

\* lines 107-109
OpenWorksheet ==
    /\ cli_pc = "sheets"
    /\ cli_calls' = Append(cli_calls, "auth_sheets")
    /\ cli_pc' = "header"
    /\ UNCHANGED <<normVars, worldVars, pollVars, args, ws_header, ws_rows, cli_ret,
                   cli_raised, handler, records, csv_rows>>

\* backup_to_csv -> read_all_complaints -> ensure_header, lines 40-44: an empty
\* sheet gets the canonical header
EnsureHeaderWrites ==
    /\ cli_pc = "header"
    /\ HeaderBlank(ws_header)
    /\ ws_header' = SHEET_COLUMNS
    /\ cli_pc' = "records"
    /\ UNCHANGED <<normVars, worldVars, pollVars, args, ws_rows, cli_ret, cli_raised,
                   cli_calls, handler, records, csv_rows>>

\* ensure_header lines 46-52: RuntimeError
EnsureHeaderRaises ==
    /\ cli_pc = "header"
    /\ ~HeaderBlank(ws_header)
    /\ ~HeaderMatches(ws_header) /\ ~args.non_strict_header
    /\ CliStop("raised", "header")
    /\ UNCHANGED <<normVars, worldVars, pollVars, args, ws_header, ws_rows, cli_ret,
                   cli_calls, handler, records, csv_rows>>

\* ensure_header lines 46-48: the header matches, or strict is off
EnsureHeaderPasses ==
    /\ cli_pc = "header"
    /\ ~HeaderBlank(ws_header)
    /\ HeaderMatches(ws_header) \/ args.non_strict_header
    /\ cli_pc' = "records"
    /\ UNCHANGED <<normVars, worldVars, pollVars, args, ws_header, ws_rows, cli_ret,
                   cli_raised, cli_calls, handler, records, csv_rows>>

\* sheets.py line 57
ReadRecords ==
    /\ cli_pc = "records"
    /\ records' = get_all_records(ws_header, ws_rows)
    /\ cli_pc' = "csv"
    /\ UNCHANGED <<normVars, worldVars, pollVars, args, ws_header, ws_rows, cli_ret,
                   cli_raised, cli_calls, handler, csv_rows>>

\* backup.py lines 18-24
WriteCsv ==
    /\ cli_pc = "csv"
    /\ csv_rows' = CsvFile(records)
    /\ cli_pc' = "written"
    /\ UNCHANGED <<normVars, worldVars, pollVars, args, ws_header, ws_rows, cli_ret,
                   cli_raised, cli_calls, handler, records>>

\* run_backup lines 114-116
BackupDone ==
    /\ cli_pc = "written"
    /\ FastPath(args)
    /\ cli_ret' = 0
    /\ cli_pc' = "returned"
    /\ UNCHANGED <<normVars, worldVars, pollVars, args, ws_header, ws_rows,
                   cli_raised, cli_calls, handler, records, csv_rows>>

\* line 118
LoadGraphEnv ==
    /\ cli_pc = "written"
    /\ ~FastPath(args)
    /\ IF GraphEnvOk
       THEN cli_pc' = "token" /\ cli_raised' = ""
       ELSE CliStop("exit", "graph_env")
    /\ UNCHANGED <<normVars, worldVars, pollVars, args, ws_header, ws_rows, cli_ret,
                   cli_calls, handler, records, csv_rows>>

\* line 119
BackupGetToken ==
    /\ cli_pc = "token"
    /\ cli_calls' = Append(cli_calls, "get_token")
    /\ cli_pc' = "drive"
    /\ UNCHANGED <<normVars, worldVars, pollVars, args, ws_header, ws_rows, cli_ret,
                   cli_raised, handler, records, csv_rows>>

\* lines 120-121
BackupResolveDrive ==
    /\ cli_pc = "drive"
    /\ cli_calls' = cli_calls \o << "get_site_id", "get_default_drive_id" >>
    /\ cli_pc' = "upload"
    /\ UNCHANGED <<normVars, worldVars, pollVars, args, ws_header, ws_rows, cli_ret,
                   cli_raised, handler, records, csv_rows>>

\* lines 123-132
BackupUpload ==
    /\ cli_pc = "upload"
    /\ cli_calls' = cli_calls
                    \o (IF args.sp_upload THEN << "upload_csv" >> ELSE << >>)
                    \o (IF args.sp_upload /\ args.sp_upload_log THEN << "upload_log" >> ELSE << >>)
    /\ cli_pc' = "email"
    /\ UNCHANGED <<normVars, worldVars, pollVars, args, ws_header, ws_rows, cli_ret,
                   cli_raised, handler, records, csv_rows>>

\* lines 134-162 with the mail sent
BackupSendMail ==
    /\ cli_pc = "email"
    /\ args.email /\ BackupMailConfigured
    /\ cli_calls' = Append(cli_calls, "send_mail")
    /\ cli_ret' = 0
    /\ cli_pc' = "returned"
    /\ UNCHANGED <<normVars, worldVars, pollVars, args, ws_header, ws_rows,
                   cli_raised, handler, records, csv_rows>>

\* lines 134-162 without mail: not requested, or sender or recipients missing
BackupSkipMail ==
    /\ cli_pc = "email"
    /\ ~(args.email /\ BackupMailConfigured)
    /\ cli_ret' = 0
    /\ cli_pc' = "returned"
    /\ UNCHANGED <<normVars, worldVars, pollVars, args, ws_header, ws_rows,
                   cli_raised, cli_calls, handler, records, csv_rows>>

\* a Graph call of lines 119-158 raises
BackupGraphFails ==
    /\ \/ cli_pc \in {"token", "drive"}
       \/ cli_pc = "upload" /\ args.sp_upload
       \/ cli_pc = "email" /\ args.email /\ BackupMailConfigured
    /\ CliStop("raised", "graph")
    /\ UNCHANGED <<normVars, worldVars, pollVars, args, ws_header, ws_rows, cli_ret,
                   cli_calls, handler, records, csv_rows>>

CliNext ==
    \/ ParseArgs
    \/ MainRoute
    \/ BackupRequire
    \/ OpenWorksheet
    \/ EnsureHeaderWrites
    \/ EnsureHeaderRaises
    \/ EnsureHeaderPasses
    \/ ReadRecords
    \/ WriteCsv
    \/ BackupDone
    \/ LoadGraphEnv
    \/ BackupGetToken
    \/ BackupResolveDrive
    \/ BackupUpload
    \/ BackupSendMail
    \/ BackupSkipMail
    \/ BackupGraphFails

CliSpec == CliInit /\ [][CliNext]_vars
----------------------------------------------------------------------------
\* Vocabulary of the properties

\* the claims' own reading of "processed": the cell of the processed column,
\* trimmed and lower-cased, is one of yes, true, 1, y, done
MarkerWords == { <<"y","e","s">>, <<"t","r","u","e">>, <<"1">>, <<"y">>, <<"d","o","n","e">> }

\* the index the run resolves for this table (the table layout never changes)
MarkerIdx == FindProcessedIdx(cols)

CellText(values, idx) ==
    IF idx >= 0 /\ idx < Len(values) THEN PyStr(values[idx + 1]) ELSE <<>>

CellProcessed(values, idx) == Lower(Strip(CellText(values, idx))) \in MarkerWords

\* the events of one kind this invocation logged for the row at a snapshot position
EventsAt(kind, pos) == { e \in 1..Len(log) : log[e][1] = kind /\ log[e][2] = pos }

EventsOf(kind) == { e \in 1..Len(log) : log[e][1] = kind }

MarkCount == Cardinality(EventsOf("mark"))

\* the rows of the snapshot a run has to deliver
Unprocessed ==
    LET idx == MarkerIdx
    IN  { j \in 1..Len(snapTable) :
            snapTable[j].index >= 0 /\ snapTable[j].values # <<>>
            /\ ~CellProcessed(snapTable[j].values, idx) }

\* the claims' own reading of the key normalization: lower-cased, whitespace-collapsed
LowerCollapsed(k) == Join(SplitWs(Lower(k), <<>>, <<>>), <<" ">>)

\* the canonical key an input key writes (<<>> when it writes none)
Target(k) ==
    IF LowerCollapsed(k) \in DOMAIN QUESTION_MAP THEN QUESTION_MAP[LowerCollapsed(k)]
    ELSE IF k \in CanonicalKeys THEN k
    ELSE <<>>

----------------------------------------------------------------------------
\* C1: row isolation.  In an invocation in which the delivery of exactly one row
\* raised, the invocation does not raise; once it has returned, every other
\* unprocessed row of the snapshot is delivered and marked and the processed
\* count is N-1.  (The code has no try/except around a row: TLC refutes this.)
C1_RowIsolation ==
    Cardinality(EventsOf("fail")) = 1 =>
        /\ pc # "raised"
        /\ pc = "returned" =>
             /\ \A j \in Unprocessed :
                    EventsAt("fail", j) # {}
                    \/ (EventsAt("upload_pdf", j) # {} /\ EventsAt("mark", j) # {})
             /\ processed_count = Cardinality(Unprocessed) - 1

----------------------------------------------------------------------------
\* C2: poll idempotence.  A row of the snapshot whose processed cell, trimmed and
\* lower-cased, is one of yes/true/1/y/done has no event of any kind in the
\* invocation (not normalized, rendered, uploaded, mailed, written back) and is
\* not counted; and no row an earlier invocation marked has any event in a later one.
C2_ProcessedRowsUntouched ==
    /\ LET idx == MarkerIdx
       IN  \A j \in 1..Len(snapTable) :
              CellProcessed(snapTable[j].values, idx) =>
                  \A e \in 1..Len(log) : log[e][2] # j
    /\ \A e \in 1..Len(log) : log[e][3] \notin markedBefore
    /\ processed_count <= Cardinality(Unprocessed)

\* a second invocation has walked past a row marked " YES " (trimming and
\* lower-casing needed) and past a row the first invocation marked
C2_Witness ==
    /\ run = 2 /\ pc = "returned"
    /\ markedBefore # {}
    /\ \E j \in 1..Len(snapTable) :
          /\ CellProcessed(snapTable[j].values, MarkerIdx)
          /\ CellText(snapTable[j].values, MarkerIdx) \notin MarkerWords
    /\ \E j \in 1..Len(snapTable) : snapTable[j].index \in markedBefore

----------------------------------------------------------------------------
----------------------------------------------------------------------------
\* C4: per-row ordering.  Every write-back event of a row is preceded in the log
\* by that row's PDF upload, JSON upload and (when sender and recipients are
\* configured) mail; the counter never exceeds the number of write-backs done,
\* and lags it by exactly one only between a write-back and its increment.
C4_MarkAfterDelivery ==
    /\ \A m \in EventsOf("mark") :
          /\ \E a \in EventsAt("upload_pdf", log[m][2]) : a < m
          /\ \E b \in EventsAt("upload_json", log[m][2]) : b < m
          /\ MailConfigured => \E c \in EventsAt("mail", log[m][2]) : c < m
    /\ processed_count = MarkCount - (IF pc = "count" THEN 1 ELSE 0)

\* a mailed row is marked and not yet counted, after another row was counted
C4_Witness ==
    /\ pc = "count" /\ MailConfigured
    /\ MarkCount = 2 /\ processed_count = 1

----------------------------------------------------------------------------
\* C5: a failed delivery leaves the row unprocessed and the next invocation takes
\* it again.  When a delivery step raised, the table row is what the snapshot
\* held and no write-back was issued for it; a row whose delivery failed and
\* that was not marked since is unprocessed in the table; the rows fetched by an
\* invocation hold every row pending at its start, and an invocation that has
\* walked past such a row, or has ended inside the loop, has attempted it.
C5_FailedRowRetried ==
    /\ (pc = "raised" /\ raisedAt \in DeliveryStages) =>
          /\ table[cur.row_index + 1] = snapTable[cur.pos]
          /\ EventsAt("mark", cur.pos) = {}
    /\ \A k \in pendingRetry :
          k + 1 <= Len(table) /\ ~CellProcessed(table[k + 1].values, MarkerIdx)
    /\ fetches = 1 => \A k \in retryAtStart : \E j \in 1..Len(rows) : rows[j].index = k
    /\ \A j \in 1..Len(rows) :
          ( /\ rows[j].index \in retryAtStart
            /\ (j < i \/ (pc = "raised" /\ raisedAt \in DeliveryStages \cup {"mark"})) )
          => EventsAt("normalize", j) # {}

\* the second invocation delivered and marked a row whose delivery failed in the first
C5_Witness ==
    /\ run = 2
    /\ \E j \in 1..Len(rows) :
          /\ j < i
          /\ rows[j].index \in retryAtStart
          /\ EventsAt("mark", j) # {}

----------------------------------------------------------------------------
\* C6: a configuration error is fatal and precedes every row side effect.  With a
\* required environment value missing (unset or empty), or no column resolving
\* to the processed column, no invocation fetches rows, logs an event, changes a
\* row or returns.
ConfigError ==
    \/ \E j \in 1..Len(RequiredEnv) :
          ~env[RequiredEnv[j]].set \/ env[RequiredEnv[j]].v = <<>>
    \/ \A j \in 1..Len(cols) :
          Lower(Strip(cols[j])) \notin { <<"p","r","o","c","e","s","s","e","d">>, <<"i","s"," ","p","r","o","c","e","s","s","e","d">>, <<"d","o","n","e">> }

C6_ConfigErrorIsFatal ==
    ConfigError =>
        /\ fetches = 0 /\ rows = <<>> /\ log = <<>>
        /\ pc \in {"idle", "token", "drives", "columns", "exit", "raised"}
        /\ ret = -1
        /\ \A j \in 1..Len(table) : \E k \in RowKinds : table[j].values = k.values

\* the run found no processed column while the table held rows
C6_Witness ==
    /\ pc = "raised" /\ raisedAt = "processed_col"
    /\ Len(table) >= 2

----------------------------------------------------------------------------
\* C7: one snapshot per invocation, each of its rows handled at most once.  The
\* rows are fetched at most once; every event is about a row of that snapshot
\* and carries the index fetched for it; no position has two events of the same
\* kind; a row the source added after the fetch has no event and is as added.
C7_SnapshotOnce ==
    /\ fetches <= 1
    /\ \A e \in 1..Len(log) :
          /\ log[e][2] \in 1..Len(snapTable)
          /\ log[e][3] = snapTable[log[e][2]].index
    /\ \A a, b \in 1..Len(log) :
          (a # b /\ log[a][1] = log[b][1]) => log[a][2] # log[b][2]
    /\ fetches = 1 =>
          \A j \in (Len(snapTable) + 1)..Len(table) :
              /\ \A e \in 1..Len(log) : log[e][3] # j - 1
              /\ \E k \in RowKinds : table[j].values = k.values

\* a run returned after marking a row while the source had added another row
\* after the fetch
C7_Witness ==
    /\ pc = "returned" /\ MarkCount >= 1
    /\ Len(table) > Len(snapTable)
    /\ ~CellProcessed(table[Len(table)].values, MarkerIdx)
    /\ table[Len(table)].index >= 0 /\ table[Len(table)].values # <<>>

----------------------------------------------------------------------------
\* C8: normalize_fields is total and schema-complete.  For every mapping the
\* call returns a record whose key set is exactly the canonical key set, and a
\* canonical key no entry writes holds the empty string.
C8_SchemaComplete ==
    nf_pc = "returned" =>
        /\ DOMAIN nf_out = CanonicalKeys
        /\ LET written == { Target(nf_raw[j][1]) : j \in 1..Len(nf_raw) }
           IN  \A c \in CanonicalKeys \ written : nf_out[c] = Str(<<>>)

\* a mapping with an unknown key and a non-string value was normalized
C8_Witness ==
    /\ nf_pc = "returned"
    /\ \E j \in 1..Len(nf_raw) : nf_raw[j][1] = <<"F","o","o">>
    /\ \E j \in 1..Len(nf_raw) : nf_raw[j][2].t # "str"
    /\ Len(nf_raw) >= 2

----------------------------------------------------------------------------
\* C9 as stated: whenever an input key lower-cases and whitespace-collapses to a
\* key of the Field Mapping Table, the output holds that entry's value under the
\* mapped canonical key.
C9_MappedKeyHoldsValue ==
    nf_pc = "returned" =>
        \A j \in 1..Len(nf_raw) :
            LowerCollapsed(nf_raw[j][1]) \in DOMAIN QUESTION_MAP =>
                nf_out[QUESTION_MAP[LowerCollapsed(nf_raw[j][1])]] = nf_raw[j][2]

\* the post-pass replaces the value the loop left under submission_timestamp
PostPassFires ==
    /\ ~Truthy(nf_main[K_submission_timestamp])
    /\ Truthy(ItemsGet(nf_raw, K_timestamp))

\* C9 amended: the output holds that entry's value under the mapped canonical
\* key provided no later entry of the input writes the same canonical key (by
\* mapping to it or by naming it verbatim) and, for submission_timestamp, the
\* timestamp post-pass does not replace the value.
C9_LastMappedKeyHoldsValue ==
    nf_pc = "returned" =>
        \A j \in 1..Len(nf_raw) :
            LET c == Target(nf_raw[j][1])
            IN  ( /\ LowerCollapsed(nf_raw[j][1]) \in DOMAIN QUESTION_MAP
                  /\ \A l \in (j + 1)..Len(nf_raw) : Target(nf_raw[l][1]) # c
                  /\ ~(c = K_submission_timestamp /\ PostPassFires) )
                => nf_out[c] = nf_raw[j][2]

\* "First Name" and " first   name " both given, with different values: the
\* later one is the output
C9_Witness ==
    /\ nf_pc = "returned"
    /\ \E j, l \in 1..Len(nf_raw) :
          /\ j < l
          /\ nf_raw[j][1] = <<"F","i","r","s","t"," ","N","a","m","e">>
          /\ nf_raw[l][1] = <<" ","f","i","r","s","t"," "," "," ","n","a","m","e"," ">>
          /\ nf_raw[j][2] # nf_raw[l][2]
          /\ nf_out[<<"f","i","r","s","t","_","n","a","m","e">>] = nf_raw[l][2]

----------------------------------------------------------------------------
\* C10: the timestamp post-pass.  With a top-level "timestamp" entry whose value
\* is non-empty (truthy, the code's test) and submission_timestamp left empty
\* (falsy) by the loop, the output submission_timestamp is the timestamp value;
\* when the loop left submission_timestamp non-empty the output keeps it.
C10_TimestampPostPass ==
    nf_pc = "returned" =>
        /\ ( /\ K_timestamp \in ItemKeys(nf_raw)
             /\ Truthy(ItemsGet(nf_raw, K_timestamp))
             /\ ~Truthy(nf_main[K_submission_timestamp]) )
           => nf_out[K_submission_timestamp] = ItemsGet(nf_raw, K_timestamp)
        /\ Truthy(nf_main[K_submission_timestamp])
           => nf_out[K_submission_timestamp] = nf_main[K_submission_timestamp]

\* the loop left submission_timestamp empty although "timestamp" was given: a
\* later entry overwrote it with an empty value, and the post-pass restored it
C10_Witness ==
    /\ nf_pc = "returned"
    /\ Truthy(ItemsGet(nf_raw, K_timestamp))
    /\ ~Truthy(nf_main[K_submission_timestamp])
    /\ nf_out[K_submission_timestamp] = ItemsGet(nf_raw, K_timestamp)


----------------------------------------------------------------------------
\* C14: the canonical key list is a set: its keys are pairwise distinct and
\* there are more than 10 of them; a record keyed by the list therefore has as
\* many fields as the list has entries.
C14_CanonicalKeysDistinct ==
    /\ \A a, b \in 1..Len(SHEET_COLUMNS) :
          a # b => SHEET_COLUMNS[a] # SHEET_COLUMNS[b]
    /\ Len(SHEET_COLUMNS) > 10
    /\ Cardinality(DOMAIN nf_main) = Len(SHEET_COLUMNS)

\* a record was built with one field per entry of the key list
C14_Witness ==
    /\ nf_pc = "returned"
    /\ Cardinality(DOMAIN nf_out) = Len(SHEET_COLUMNS)
    /\ Len(SHEET_COLUMNS) > 10

----------------------------------------------------------------------------
\* the entries of the input that write canonical key c: the key maps to c in
\* the Field Mapping Table or, being unmapped, is c verbatim
Writers(raw, c) == { j \in 1..Len(raw) : Target(raw[j][1]) = c }

\* the value of the last such entry, the empty string when there is none
RefValue(raw, c) ==
    IF Writers(raw, c) = {} THEN Str(<<>>)
    ELSE raw[CHOOSE j \in Writers(raw, c) : \A l \in Writers(raw, c) : l <= j][2]

\* the input without its entry j
WithoutEntry(raw, j) == SubSeq(raw, 1, j - 1) \o SubSeq(raw, j + 1, Len(raw))

\* C15: reference semantics of normalize_fields.  After the loop every
\* canonical key holds the value of the last entry that writes it, the empty
\* string when none does; the returned record differs from that only in
\* submission_timestamp, and only when the post-pass copies "timestamp"; an
\* entry whose key is neither mapped nor canonical leaves the output as it is
\* without that entry.
C15_LastWriteWins ==
    /\ nf_pc \in {"mapped", "returned"} =>
          \A c \in CanonicalKeys : nf_main[c] = RefValue(nf_raw, c)
    /\ nf_pc = "returned" =>
          /\ \A c \in CanonicalKeys \ {K_submission_timestamp} :
                 nf_out[c] = RefValue(nf_raw, c)
          /\ nf_out[K_submission_timestamp] =
                 IF ~Truthy(RefValue(nf_raw, K_submission_timestamp))
                    /\ Truthy(ItemsGet(nf_raw, K_timestamp))
                 THEN ItemsGet(nf_raw, K_timestamp)
                 ELSE RefValue(nf_raw, K_submission_timestamp)
          /\ \A j \in 1..Len(nf_raw) :
                 Target(nf_raw[j][1]) = <<>> =>
                     normalize_fields(WithoutEntry(nf_raw, j)) = nf_out

\* a verbatim canonical key overwrote a mapped question, next to an unknown key
C15_Witness ==
    /\ nf_pc = "returned"
    /\ \E j, l \in 1..Len(nf_raw) :
          /\ j < l
          /\ nf_raw[j][1] = <<"F","i","r","s","t"," ","N","a","m","e">>
          /\ nf_raw[l][1] = <<"f","i","r","s","t","_","n","a","m","e">>
          /\ nf_raw[j][2] # nf_raw[l][2]
          /\ nf_out[<<"f","i","r","s","t","_","n","a","m","e">>] = nf_raw[l][2]

----------------------------------------------------------------------------
\* the row the claim says is written back: the fetched values with "Yes" in
\* the processed column, extended with empty strings up to that column
RefMarked(values, idx) ==
    [p \in 1..(IF idx + 1 > Len(values) THEN idx + 1 ELSE Len(values)) |->
        IF p = idx + 1 THEN Str(<<"Y","e","s">>)
        ELSE IF p <= Len(values) THEN values[p]
        ELSE Str(<<>>)]

\* C17: write-back frame.  A row written back in this invocation holds in the
\* table the values fetched for it with "Yes" in the processed column, padded
\* with empty strings to length processed index + 1 when it was shorter; the
\* write went to the row_index fetched; every row of the snapshot without a
\* write-back is in the table as it was fetched.
C17_WriteBackFrame ==
    /\ \A e \in EventsOf("mark") :
          LET snap == snapTable[log[e][2]]
          IN  /\ log[e][3] = snap.index
              /\ table[snap.index + 1].index = snap.index
              /\ table[snap.index + 1].values = RefMarked(snap.values, processed_idx)
    /\ \A j \in 1..Len(snapTable) :
          EventsAt("mark", j) = {} => table[j] = snapTable[j]

\* a row shorter than the processed column was written back, padded, while
\* another fetched row was left as it was
C17_Witness ==
    /\ \E e \in EventsOf("mark") :
          /\ Len(snapTable[log[e][2]].values) < processed_idx
          /\ Len(table[log[e][3] + 1].values) = processed_idx + 1
          /\ table[log[e][3] + 1].values[processed_idx] = Str(<<>>)
    /\ \E j \in 1..Len(snapTable) :
          EventsAt("mark", j) = {} /\ snapTable[j].values # <<>>

----------------------------------------------------------------------------
\* the first column, in table order, whose trimmed lower-cased name is one of
\* processed / is processed / done (0-based; -1 when there is none)
RefIdx ==
    LET hits == { j \in 1..Len(cols) :
                    Lower(Strip(cols[j])) \in { <<"p","r","o","c","e","s","s","e","d">>, <<"i","s"," ","p","r","o","c","e","s","s","e","d">>, <<"d","o","n","e">> } }
    IN  IF hits = {} THEN -1
        ELSE (CHOOSE j \in hits : \A l \in hits : j <= l) - 1

\* C18: processed-column resolution.  Once resolved, the index is that of the
\* first candidate column; the run fails on the column lookup only when no
\* column is a candidate (the exact-name phase then finds nothing either), and
\* then fetches no rows; that one index decides which rows are skipped as
\* processed and is the cell every write-back sets to "Yes".
C18_ProcessedColumnResolution ==
    /\ processed_idx # -1 => processed_idx = RefIdx
    /\ fetches = 1 => processed_idx = RefIdx /\ RefIdx >= 0
    /\ (pc = "raised" /\ raisedAt = "processed_col") => (RefIdx = -1 /\ cols # <<>>)
    /\ RefIdx = -1 => fetches = 0
    /\ \A j \in 1..Len(snapTable) :
          (j < i /\ snapTable[j].index >= 0 /\ snapTable[j].values # <<>>) =>
              (EventsAt("normalize", j) = {} <=> CellProcessed(snapTable[j].values, RefIdx))
    /\ \A e \in EventsOf("mark") :
          table[log[e][3] + 1].values[RefIdx + 1] = Str(<<"Y","e","s">>)

\* with two candidate columns the run used the first: it skipped the row marked
\* there and wrote back another
C18_Witness ==
    /\ pc = "returned" /\ MarkCount >= 1
    /\ Cardinality({ j \in 1..Len(cols) :
                       Lower(Strip(cols[j])) \in { <<"p","r","o","c","e","s","s","e","d">>, <<"i","s"," ","p","r","o","c","e","s","s","e","d">>, <<"d","o","n","e">> } }) = 2
    /\ \E j \in 1..Len(snapTable) : CellProcessed(snapTable[j].values, RefIdx)

----------------------------------------------------------------------------
\* the text of the first of the named cells that is non-empty, else ""
CellOr(raw_row, names) ==
    LET full == { n \in 1..Len(names) : Truthy(ItemsGet(raw_row, names[n])) }
    IN  IF full = {} THEN <<>>
        ELSE PyStr(ItemsGet(raw_row, names[CHOOSE n \in full : \A m \in full : n <= m]))

\* C19: row timestamp defaults.  For the row in hand the timestamp is the
\* completion time when non-empty, else the start time; in the record handed
\* on, date and submission_timestamp are the timestamp when normalization left
\* them empty and the timestamp is non-empty, and what normalization produced
\* otherwise, as is every other field.
C19_TimestampDefaults ==
    cur.pos > 0 =>
        LET raw_row == ZipRow(cols, snapTable[cur.pos].values, <<>>)
            completion == CellOr(raw_row, << <<"C","o","m","p","l","e","t","i","o","n"," ","t","i","m","e">>, <<"c","o","m","p","l","e","t","i","o","n"," ","t","i","m","e">> >>)
            start == CellOr(raw_row, << <<"S","t","a","r","t"," ","t","i","m","e">>, <<"s","t","a","r","t"," ","t","i","m","e">> >>)
            ts == IF completion # <<>> THEN completion ELSE start
            N == normalize_fields(CleanedFields(raw_row))
        IN  /\ cur.timestamp = ts
            /\ DOMAIN cur.norm = CanonicalKeys
            /\ \A c \in {K_date, K_submission_timestamp} :
                  cur.norm[c] = IF ~Truthy(N[c]) /\ ts # <<>> THEN Str(ts) ELSE N[c]
            /\ \A c \in CanonicalKeys \ {K_date, K_submission_timestamp} :
                  cur.norm[c] = N[c]

\* a row with both times and a date: the completion time is the timestamp, the
\* date is kept and submission_timestamp takes the timestamp
C19_Witness ==
    /\ cur.pos > 0
    /\ cur.timestamp = <<"T","1">>
    /\ ItemsGet(ZipRow(cols, snapTable[cur.pos].values, <<>>), <<"S","t","a","r","t"," ","t","i","m","e">>) = Num(7)
    /\ cur.norm[K_date] = Str(<<"A","d","a">>)
    /\ cur.norm[K_submission_timestamp] = Str(<<"T","1">>)

----------------------------------------------------------------------------
\* a well-formed row k of the table that is not marked processed and whose own
\* delivery and write-back succeed when attempted
Deliverable(k) ==
    /\ k + 1 <= Len(table)
    /\ table[k + 1].index = k /\ table[k + 1].values # <<>>
    /\ ~CellProcessed(table[k + 1].values, RefIdx)
    /\ ~FailsAlways(k)

RowDone(k) == k + 1 <= Len(table) /\ CellProcessed(table[k + 1].values, RefIdx)

\* C16: under repeated invocations every unprocessed row whose own delivery
\* and write-back succeed is eventually marked processed, whatever happens to
\* the other rows.  (An invocation ends at the first failing row, so the rows
\* after it are never reached: TLC refutes this.)
C16_EventuallyMarked ==
    \A k \in 0..(MaxRows - 1) : Deliverable(k) ~> RowDone(k)

----------------------------------------------------------------------------
\* the header row has a non-blank cell
HeaderNonEmpty == \E j \in 1..Len(ws_header) : Strip(ws_header[j]) # <<>>

\* among its first len(SHEET_COLUMNS) cells, trimmed, one differs from the
\* canonical key of its position (a missing cell differs)
HeaderDiffers ==
    \E p \in 1..Len(SHEET_COLUMNS) :
        p > Len(ws_header) \/ Strip(ws_header[p]) # SHEET_COLUMNS[p]

\* the run has left ensure_header without an error
PastHeader ==
    \/ cli_pc \in {"records", "csv", "written", "token", "drive", "upload", "email", "returned"}
    \/ cli_raised \in {"graph_env", "graph"}

\* the cells of data row j as a record over the header holds them
RowUnderHeader(j) ==
    [p \in 1..Len(ws_header) |->
        IF p <= Len(ws_rows[j]) THEN ws_rows[j][p] ELSE Str(<<>>)]

----------------------------------------------------------------------------
\* str(value) of a cell
ValueText(v) ==
    IF v.t = "str" THEN v.s ELSE IF v.t = "int" THEN NatToStr(v.n) ELSE <<>>

\* C12: backup_to_csv.  The file is the canonical header followed by one line
\* per extracted record, in order; each line has one cell per canonical key, in
\* canonical order, holding the record's value for that key, the empty string
\* when the record has no such key; nothing else of the record is written.
C12_CsvRows ==
    csv_rows # <<>> =>
        /\ csv_rows[1] = SHEET_COLUMNS
        /\ Len(csv_rows) = Len(records) + 1
        /\ \A j \in 1..Len(records) :
              /\ Len(csv_rows[j + 1]) = Len(SHEET_COLUMNS)
              /\ \A p \in 1..Len(SHEET_COLUMNS) :
                    LET at == { q \in 1..Len(records[j]) : records[j][q][1] = SHEET_COLUMNS[p] }
                    IN  csv_rows[j + 1][p] =
                            IF at = {} THEN <<>>
                            ELSE ValueText(records[j][CHOOSE q \in at : TRUE][2])

\* two records with a key outside the canonical set ("ts", holding a value) and
\* without submission_timestamp: the last cell of their lines is empty
C12_Witness ==
    /\ Len(records) = 2 /\ Len(csv_rows) = 3
    /\ \E q \in 1..Len(records[1]) :
          records[1][q][1] = <<"t","s">> /\ records[1][q][2] = Str(<<"T","9">>)
    /\ csv_rows[2][Len(SHEET_COLUMNS)] = <<>>
    /\ csv_rows[2][5] = <<"7">>

----------------------------------------------------------------------------
\* C13: the backup command with neither --sp-upload nor --email makes no Graph
\* call (token, site, drive, upload, mail), never reads the Graph
\* configuration, and once the CSV is written returns 0.
C13_BackupFastPath ==
    (args.cmd = "backup" /\ ~args.sp_upload /\ ~args.email) =>
        /\ \A k \in 1..Len(cli_calls) :
              cli_calls[k] \notin { "get_token", "get_site_id", "get_default_drive_id",
                                    "upload_csv", "upload_log", "send_mail" }
        /\ cli_pc \notin {"token", "drive", "upload", "email"}
        /\ cli_raised \notin {"graph_env", "graph"}
        /\ cli_pc = "returned" => (cli_ret = 0 /\ csv_rows # <<>>)
        /\ csv_rows # <<>> => cli_pc \in {"written", "returned"}

\* the backup returned 0 with the CSV written although SP_FOLDER is not set
C13_Witness ==
    /\ args.cmd = "backup" /\ ~args.sp_upload /\ ~args.email
    /\ cli_pc = "returned" /\ cli_ret = 0
    /\ csv_rows # <<>>
    /\ ~env["SP_FOLDER"].set

----------------------------------------------------------------------------
\* C20: every subcommand the parser accepts is routed by main to its handler;
\* msforms-poll runs run_msforms_poll and does not end in "Unknown command".
\* (main tests for "poll", which the parser never yields: TLC refutes this.)
C20_EveryCommandRouted ==
    (args.cmd \in {"backup", "dispatch", "msforms-poll"} /\ handler # "") =>
        /\ handler # "Unknown command"
        /\ cli_raised # "Unknown command"
        /\ args.cmd = "msforms-poll" => handler = "run_msforms_poll"
====
